---- MODULE Spec2Model ----
(***************************************************************************)
(* Streaming message assembly of the chat client (App.tsx):                *)
(* handleSendMessage folds the frames of one stream into                   *)
(* accumulatedMessage, scheduleUpdate throttles the snapshots handed to    *)
(* React through updateLastMessage.                                        *)
(*                                                                         *)
(* JavaScript values are modelled as follows.                              *)
(*   - an optional string (id, content, name, ...) is a string, "" when    *)
(*     absent: the code only ever tests these for truthiness;              *)
(*   - any other optional value is None or Some(v);                        *)
(*   - objects that are mutated in place and shared by reference (the      *)
(*     parts array of the stream, the tool-call accumulators, the usage    *)
(*     totals) live in their own variables and are referred to by number.  *)
(***************************************************************************)
EXTENDS Integers, Sequences, FiniteSets, TLC

\* ------------------------------------------------------------------ bounds
MaxDeltas == 3      \* frames delivered by one stream
MaxTime == 200      \* last clock reading (ms) the model follows
FrameMs == 50       \* time between two paint frames / clock readings (ms)
MaxToolIndex == 1   \* tool-call indexes are 0..MaxToolIndex
MaxLines == 3       \* lines in a response body

\* ------------------------------------------------------- program constants
MIN_UPDATE_INTERVAL == 100
ErrorNotice == "\n\n[Error generating response]"

\* ------------------------------------------------------------ value shapes
None == <<>>
Some(v) == <<v>>
IsSome(o) == o # <<>>
Val(o) == o[1]

Last(s) == s[Len(s)]
ToolIndexes == 0..MaxToolIndex

ToolCallChunk(index, id, name, arguments) ==
  [index |-> index, id |-> id, name |-> name, arguments |-> arguments]

ToolResult(tool_call_id, output) ==
  [tool_call_id |-> tool_call_id, name |-> "search", output |-> output, status |-> "ok"]

Usage(p, c, t) == [prompt_tokens |-> p, completion_tokens |-> c, total_tokens |-> t]

Delta(content, reasoning_content, tool_calls, tool_result, interrupt_info) ==
  [content |-> content, reasoning_content |-> reasoning_content,
   tool_calls |-> tool_calls, tool_result |-> tool_result,
   interrupt_info |-> interrupt_info]

StreamChunk(id, message_id, usage, delta) ==
  [id |-> id, message_id |-> message_id, usage |-> usage, delta |-> delta]

ContentChunk(id, s) == StreamChunk(id, "", None, Some(Delta(s, "", None, None, None)))
ReasoningChunk(s) == StreamChunk("", "", None, Some(Delta("", s, None, None, None)))
ToolCallsChunk(tcs) == StreamChunk("", "", None, Some(Delta("", "", Some(tcs), None, None)))
ToolResultChunk(r) == StreamChunk("", "", None, Some(Delta("", "", None, Some(r), None)))

\* The frames that exercise the fold of parts and tool calls.
CoreFrames ==
  << ContentChunk("srv", "a"),
     ContentChunk("", "b"),
     ReasoningChunk("r"),
     ToolCallsChunk(<< ToolCallChunk(0, "x", "ge", "") >>),
     ToolCallsChunk(<< ToolCallChunk(0, "", "t", "{}") >>),
     ToolCallsChunk(<< ToolCallChunk(0, "y", "s", "") >>),
     ToolCallsChunk(<< ToolCallChunk(1, "", "s", "") >>),
     ToolResultChunk(ToolResult("x", "[]")),
     StreamChunk("", "", None,
       Some(Delta("b", "r", Some(<< ToolCallChunk(0, "", "", "{") >>),
                  Some(ToolResult("y", "1")), None))),
     StreamChunk("srv", "m1", Some(Usage(10, 2, 12)), None),
     StreamChunk("", "", None, Some(Delta("", "", Some(<<>>), None, None))),
     StreamChunk("", "", None,
       Some(Delta("", "", None, None, Some([type |-> "approval_required", message |-> "ok?"]))))
  >>

\* Frames that carry identity and usage: a relabel without delta, and a usage
\* report that comes with text.
MetaFrames ==
  << StreamChunk("srv2", "m2", None, None),
     StreamChunk("", "", Some(Usage(5, 1, 6)), Some(Delta("b", "", None, None, None)))
  >>

\* The frames a stream may deliver, in any order and with repetition.
FramePool == CoreFrames \o MetaFrames

FrameIds == 1..Len(CoreFrames)

\* The frames of a run that exercises identity, usage and interrupt handling.
MetaFrameIds == {1, 10, 12, Len(CoreFrames) + 1, Len(CoreFrames) + 2}

\* The frames of a run that exercises the scheduler: text with and without a
\* backend id, a tool call, and a frame without delta.
SchedulerFrameIds == {1, 2, 4, 10}

\* ---------------------------------------------------------------- the state
VARIABLES
  pc,                 \* position of handleSendMessage: idle, streaming, done, failed
  isLoading,          \* React state isLoading
  messages,           \* React state messages (the history shown by the renderer)
  accumulatedMessage, \* the local message the stream folds into
  parts,              \* the parts array created with the placeholder (shared by reference)
  toolObjs,           \* the ToolCall objects allocated so far (an object is its position)
  currentToolCalls,   \* index -> ToolCall object (0: no entry)
  uuidCount,          \* uuidv4() calls made for tool-call ids
  lastUpdateTime, rafId, pendingUpdate,   \* locals of the scheduler
  rafQueue,           \* callbacks the host has scheduled and not yet run or cancelled
  nextRafId,          \* next handle requestAnimationFrame returns
  now,                \* performance.now()
  pool,               \* the frames the backend may deliver in this run (fixed)
  applied,            \* history: the frames consumed so far (positions in FramePool)
  pubLog,             \* history: the calls of updateLastMessage made so far
  source,             \* the bytes of the response body (fixed; ASCII, one character each)
  received,           \* how many of them reader.read() has delivered
  buffer,             \* streamChatCompletion: let buffer
  lines,              \* streamChatCompletion: the lines of the chunk not yet looked at
  yielded,            \* history: the frames the generator has yielded
  dpc,                \* position of streamChatCompletion: unused, reading, yielded,
                      \* returned, thrown
  aborted,            \* signal.aborted
  isFetchingHistory,  \* React state isFetchingHistory
  currentSessionId,   \* React state currentSessionId (None: a new chat)
  loading,            \* position of loadMessages: none, initial, more
  sessionId,          \* handleSendMessage: const sessionId ("": nothing sent yet)
  listMessages,       \* MessageList: the messages prop, references followed
  completedToolIds    \* MessageList: the memoised set of completed tool-call ids

vars == << pc, isLoading, messages, accumulatedMessage, parts, toolObjs,
           currentToolCalls, uuidCount, lastUpdateTime, rafId, pendingUpdate,
           rafQueue, nextRafId, now, pool, applied, pubLog,
           source, received, buffer, lines, yielded, dpc, aborted,
           isFetchingHistory, currentSessionId, loading, sessionId,
           listMessages, completedToolIds >>

assemblerVars == << pc, isLoading, messages, accumulatedMessage, parts, toolObjs,
                    currentToolCalls, uuidCount, lastUpdateTime, rafId, pendingUpdate,
                    rafQueue, nextRafId, now, pool, applied, pubLog >>

decoderVars == << source, received, buffer, lines, yielded, dpc, aborted >>

pageVars == << isFetchingHistory, currentSessionId, loading, sessionId >>

rendererVars == << listMessages, completedToolIds >>

\* ------------------------------------------------- the assembler (the fold)
\* The state one loop iteration reads and writes.
FoldState(msg, ps, objs, cur, uc) ==
  [msg |-> msg, parts |-> ps, toolObjs |-> objs, currentToolCalls |-> cur, uuidCount |-> uc]

Uuid(n) == "uuid-" \o ToString(n)

ReasoningPart(s) == [type |-> "reasoning", content |-> s, tool_calls |-> <<>>, tool_result |-> <<>>]
TextPart(s) == [type |-> "text", content |-> s, tool_calls |-> <<>>, tool_result |-> <<>>]
ToolCallsPart(refs) == [type |-> "tool_calls", content |-> "", tool_calls |-> refs, tool_result |-> <<>>]
ToolResultPart(rs) == [type |-> "tool_result", content |-> "", tool_calls |-> <<>>, tool_result |-> rs]

\* lastPart?.type === t
LastPartIs(ps, t) == Len(ps) > 0 /\ Last(ps).type = t

\* Mutant of ApplyIdentity: a new backend id starts the message afresh.
ApplyIdentity_Reset(st, chunk) ==
  LET m1 == IF chunk.id # "" /\ st.msg.id # chunk.id
              THEN [st.msg EXCEPT !.id = chunk.id, !.content = "", !.reasoning_content = ""]
              ELSE st.msg
      m2 == IF chunk.message_id # "" /\ m1.message_id # chunk.message_id
              THEN [m1 EXCEPT !.message_id = chunk.message_id] ELSE m1
  IN [st EXCEPT !.msg = m2,
                !.parts = IF chunk.id # "" /\ st.msg.id # chunk.id THEN <<>> ELSE @]

\* if (chunk.id && ...) / if (chunk.message_id && ...)
ApplyIdentity(st, chunk) ==
  LET m1 == IF chunk.id # "" /\ st.msg.id # chunk.id
              THEN [st.msg EXCEPT !.id = chunk.id] ELSE st.msg
      m2 == IF chunk.message_id # "" /\ m1.message_id # chunk.message_id
              THEN [m1 EXCEPT !.message_id = chunk.message_id] ELSE m1
  IN [st EXCEPT !.msg = m2]

\* Mutant of ApplyUsage: the latest report replaces the totals.
ApplyUsage_Overwrite(st, chunk) ==
  IF IsSome(chunk.usage) THEN [st EXCEPT !.msg.usage = chunk.usage] ELSE st

\* if (chunk.usage) { ... += ... }
ApplyUsage(st, chunk) ==
  IF IsSome(chunk.usage)
    THEN LET u0 == IF IsSome(st.msg.usage) THEN Val(st.msg.usage) ELSE Usage(0, 0, 0)
             u == Val(chunk.usage)
         IN [st EXCEPT !.msg.usage =
               Some(Usage(u0.prompt_tokens + u.prompt_tokens,
                          u0.completion_tokens + u.completion_tokens,
                          u0.total_tokens + u.total_tokens))]
    ELSE st

\* Mutant of MutateToolCall: every fragment installs a new accumulator.
MutateToolCall_AlwaysNew(st, tc) ==
  LET uc == IF tc.id = "" THEN st.uuidCount + 1 ELSE st.uuidCount
      objs == Append(st.toolObjs,
                [id |-> IF tc.id # "" THEN tc.id ELSE Uuid(uc),
                 name |-> tc.name, arguments |-> tc.arguments, slot |-> tc.index])
  IN [st EXCEPT !.toolObjs = objs,
                !.currentToolCalls = [@ EXCEPT ![tc.index] = Len(objs)],
                !.uuidCount = uc]

\* Mutant of MutateToolCall: an accumulator that exists is kept, whether or
\* not the fragment carries an id.
MutateToolCall_KeepExisting(st, tc) ==
  LET fresh == st.currentToolCalls[tc.index] = 0
      uc == IF fresh /\ tc.id = "" THEN st.uuidCount + 1 ELSE st.uuidCount
      objs1 == IF fresh
                 THEN Append(st.toolObjs,
                        [id |-> IF tc.id # "" THEN tc.id ELSE Uuid(uc),
                         name |-> "", arguments |-> "", slot |-> tc.index])
                 ELSE st.toolObjs
      cur1 == IF fresh
                THEN [st.currentToolCalls EXCEPT ![tc.index] = Len(objs1)]
                ELSE st.currentToolCalls
      ref == cur1[tc.index]
      objs2 == [objs1 EXCEPT ![ref].name = @ \o tc.name,
                             ![ref].arguments = @ \o tc.arguments]
  IN [st EXCEPT !.toolObjs = objs2, !.currentToolCalls = cur1, !.uuidCount = uc]

\* One iteration of the first delta.tool_calls.forEach (mutation phase).
MutateToolCall(st, tc) ==
  LET fresh == tc.id # "" \/ st.currentToolCalls[tc.index] = 0
      uc == IF fresh /\ tc.id = "" THEN st.uuidCount + 1 ELSE st.uuidCount
      objs1 == IF fresh
                 THEN Append(st.toolObjs,
                        [id |-> IF tc.id # "" THEN tc.id ELSE Uuid(uc),
                         name |-> "", arguments |-> "", slot |-> tc.index])
                 ELSE st.toolObjs
      cur1 == IF fresh
                THEN [st.currentToolCalls EXCEPT ![tc.index] = Len(objs1)]
                ELSE st.currentToolCalls
      ref == cur1[tc.index]
      objs2 == [objs1 EXCEPT ![ref].name = @ \o tc.name,
                             ![ref].arguments = @ \o tc.arguments]
  IN [st EXCEPT !.toolObjs = objs2, !.currentToolCalls = cur1, !.uuidCount = uc]

RECURSIVE MutateToolCalls(_, _)
MutateToolCalls(st, tcs) ==
  IF tcs = <<>> THEN st
  ELSE MutateToolCalls(MutateToolCall(st, Head(tcs)), Tail(tcs))

\* 1. Process Tool Call Deltas (Mutation Phase)
ProcessToolCallDeltas(st, delta) ==
  IF IsSome(delta.tool_calls) THEN MutateToolCalls(st, Val(delta.tool_calls)) ELSE st

\* Mutant of HandleReasoning: the legacy reasoning_content is not updated.
HandleReasoning_PartsOnly(st, delta) ==
  IF delta.reasoning_content # ""
    THEN [st EXCEPT !.parts =
            IF LastPartIs(st.parts, "reasoning")
              THEN [st.parts EXCEPT ![Len(st.parts)].content = @ \o delta.reasoning_content]
              ELSE Append(st.parts, ReasoningPart(delta.reasoning_content))]
    ELSE st

\* Handle Reasoning
HandleReasoning(st, delta) ==
  IF delta.reasoning_content # ""
    THEN LET ps == IF LastPartIs(st.parts, "reasoning")
                     THEN [st.parts EXCEPT ![Len(st.parts)].content = @ \o delta.reasoning_content]
                     ELSE Append(st.parts, ReasoningPart(delta.reasoning_content))
         IN [st EXCEPT !.parts = ps,
                       !.msg.reasoning_content = @ \o delta.reasoning_content]
    ELSE st

\* Object.values(currentToolCalls): the entries in ascending index order
RECURSIVE ObjectValues(_, _)
ObjectValues(cur, i) ==
  IF i > MaxToolIndex THEN <<>>
  ELSE (IF cur[i] # 0 THEN << cur[i] >> ELSE <<>>) \o ObjectValues(cur, i + 1)

SeqIncludes(s, x) == \E k \in 1..Len(s) : s[k] = x

\* The second delta.tool_calls.forEach: push the active tool unless included.
RECURSIVE PushActiveTools(_, _, _)
PushActiveTools(refs, cur, tcs) ==
  IF tcs = <<>> THEN refs
  ELSE LET activeTool == cur[Head(tcs).index]
       IN PushActiveTools(
            IF activeTool # 0 /\ ~SeqIncludes(refs, activeTool)
              THEN Append(refs, activeTool) ELSE refs,
            cur, Tail(tcs))

\* Handle Tool Calls (Structural Phase)
HandleToolCalls(st, delta) ==
  IF IsSome(delta.tool_calls)
    THEN LET ps0 == IF LastPartIs(st.parts, "tool_calls")
                      THEN st.parts ELSE Append(st.parts, ToolCallsPart(<<>>))
             ps == [ps0 EXCEPT ![Len(ps0)].tool_calls =
                      PushActiveTools(@, st.currentToolCalls, Val(delta.tool_calls))]
         IN [st EXCEPT !.parts = ps,
                       !.msg.tool_calls = Some(ObjectValues(st.currentToolCalls, 0))]
    ELSE st

\* Handle Tool Results
HandleToolResult(st, delta) ==
  IF IsSome(delta.tool_result)
    THEN LET ps0 == IF LastPartIs(st.parts, "tool_result")
                      THEN st.parts ELSE Append(st.parts, ToolResultPart(<<>>))
             ps == [ps0 EXCEPT ![Len(ps0)].tool_result = Append(@, Val(delta.tool_result))]
             legacy == IF IsSome(st.msg.tool_result) THEN Val(st.msg.tool_result) ELSE <<>>
         IN [st EXCEPT !.parts = ps,
                       !.msg.tool_result = Some(Append(legacy, Val(delta.tool_result)))]
    ELSE st

\* Mutant of HandleContent: the text goes to the latest text part anywhere in
\* the list instead of the tail only.
HandleContent_SearchBack(st, delta) ==
  IF delta.content # ""
    THEN LET texts == {k \in 1..Len(st.parts) : st.parts[k].type = "text"}
             ps == IF texts # {}
                     THEN LET k == CHOOSE k \in texts : \A j \in texts : j <= k
                          IN [st.parts EXCEPT ![k].content = @ \o delta.content]
                     ELSE Append(st.parts, TextPart(delta.content))
         IN [st EXCEPT !.parts = ps, !.msg.content = @ \o delta.content]
    ELSE st

\* Handle Content
HandleContent(st, delta) ==
  IF delta.content # ""
    THEN LET ps == IF LastPartIs(st.parts, "text")
                     THEN [st.parts EXCEPT ![Len(st.parts)].content = @ \o delta.content]
                     ELSE Append(st.parts, TextPart(delta.content))
         IN [st EXCEPT !.parts = ps, !.msg.content = @ \o delta.content]
    ELSE st

\* Mutant of HandleInterrupt: the interrupted flag is set only when absent.
HandleInterrupt_KeepFlag(st, delta) ==
  IF IsSome(delta.interrupt_info)
    THEN [st EXCEPT !.msg.interrupt_info = delta.interrupt_info,
                    !.msg.interrupted = IF IsSome(@) THEN @ ELSE Some(FALSE)]
    ELSE st

\* if (delta.interrupt_info) { ... }
HandleInterrupt(st, delta) ==
  IF IsSome(delta.interrupt_info)
    THEN [st EXCEPT !.msg.interrupt_info = delta.interrupt_info,
                    !.msg.interrupted = Some(FALSE)]
    ELSE st

\* Mutant of ApplyDeltaFields: the text is handled before the other fields.
ApplyDeltaFields_TextFirst(st, delta) ==
  HandleInterrupt(
    HandleToolResult(
      HandleToolCalls(
        HandleReasoning(
          HandleContent(
            ProcessToolCallDeltas(st, delta), delta), delta), delta), delta), delta)

\* The part of the loop body after `if (!delta) continue`.
ApplyDeltaFields(st, delta) ==
  HandleInterrupt(
    HandleContent(
      HandleToolResult(
        HandleToolCalls(
          HandleReasoning(
            ProcessToolCallDeltas(st, delta), delta), delta), delta), delta), delta)

\* One iteration of `for await (const chunk of stream)`, the scheduler call excluded.
ApplyChunk(st, chunk) ==
  LET st1 == ApplyUsage(ApplyIdentity(st, chunk), chunk)
  IN IF IsSome(chunk.delta) THEN ApplyDeltaFields(st1, Val(chunk.delta)) ELSE st1

\* ------------------------------------------------------ history and publish
PlaceholderId == "stream-1"

\* A message as it sits in the React state. partsRef and usageRef say whether
\* the message refers to the stream's parts array and usage object.
HistoryMessage(m, partsRef, usageRef) ==
  [id |-> m.id, message_id |-> m.message_id, role |-> m.role, content |-> m.content,
   reasoning_content |-> m.reasoning_content, tool_calls |-> m.tool_calls,
   tool_result |-> m.tool_result, interrupt_info |-> m.interrupt_info,
   interrupted |-> m.interrupted, partsRef |-> partsRef, usageRef |-> usageRef]

BlankMessage(id, role, content) ==
  [id |-> id, message_id |-> "", role |-> role, content |-> content,
   reasoning_content |-> "", tool_calls |-> None, tool_result |-> None,
   usage |-> None, interrupt_info |-> None, interrupted |-> None]

userMsg == HistoryMessage(BlankMessage(PlaceholderId, "user", "q"), 0, 0)
initialAssistantMsg == BlankMessage(PlaceholderId, "assistant", "")

\* { ...accumulatedMessage }: a shallow copy, parts and usage by reference
Snapshot(msg) == HistoryMessage(msg, 1, IF IsSome(msg.usage) THEN 1 ELSE 0)

\* msg => ({ ...msg, content: msg.content + "\n\n[Error generating response]" })
WithErrorNotice(m) == [m EXCEPT !.content = @ \o ErrorNotice]

\* updateLastMessage, with updatedLast the value its updater returns
UpdateLastMessage(prev, updatedLast) ==
  IF Len(prev) = 0 THEN prev
  ELSE IF Last(prev).role # "assistant" THEN prev
  ELSE IF updatedLast.id # Last(prev).id
    THEN [i \in 1..Len(prev) |->
            IF i = Len(prev) THEN updatedLast
            ELSE IF prev[i].id = Last(prev).id
              THEN [prev[i] EXCEPT !.id = updatedLast.id] ELSE prev[i]]
  ELSE [prev EXCEPT ![Len(prev)] = updatedLast]

PubEntry(by, at) == [by |-> by, at |-> at, upto |-> Len(applied)]

\* --------------------------------------------------------------- scheduler
\* Mutant of ScheduleUpdate: the pending flag is not consulted.
ScheduleUpdate_IgnorePending(sc) ==
  [pendingUpdate |-> TRUE,
   rafId |-> sc.nextRafId,
   rafQueue |-> (IF sc.rafId # 0 THEN sc.rafQueue \ {sc.rafId} ELSE sc.rafQueue)
                  \cup {sc.nextRafId},
   nextRafId |-> sc.nextRafId + 1]

\* scheduleUpdate(), on the scheduler's locals and the host's callback queue
ScheduleUpdate(sc) ==
  IF sc.pendingUpdate THEN sc
  ELSE [pendingUpdate |-> TRUE,
        rafId |-> sc.nextRafId,
        rafQueue |-> (IF sc.rafId # 0 THEN sc.rafQueue \ {sc.rafId} ELSE sc.rafQueue)
                       \cup {sc.nextRafId},
        nextRafId |-> sc.nextRafId + 1]

SchedulerState ==
  [pendingUpdate |-> pendingUpdate, rafId |-> rafId, rafQueue |-> rafQueue,
   nextRafId |-> nextRafId]

\* Mutant of IntervalElapsed: the callback publishes at every paint frame.
IntervalElapsed_EveryFrame(t, last) == t - last >= 0

\* now - lastUpdateTime >= MIN_UPDATE_INTERVAL
IntervalElapsed(t, last) == t - last >= MIN_UPDATE_INTERVAL

\* ----------------------------------------------------------------- actions
\* const sessionId = currentSessionId || uuidv4()
NewSessionId == "session-1"

\* if (!currentSessionId) setCurrentSessionId(sessionId), on the value of
\* currentSessionId the handler was created with
SessionAfterStream ==
  IF sessionId = NewSessionId THEN Some(sessionId) ELSE currentSessionId
AssemblerInit(frames, startTime) ==
  /\ pool = frames
  /\ now = startTime
  /\ pc = "idle"
  /\ isLoading = FALSE
  /\ messages = <<>>
  /\ accumulatedMessage = initialAssistantMsg
  /\ parts = <<>>
  /\ toolObjs = <<>>
  /\ currentToolCalls = [i \in ToolIndexes |-> 0]
  /\ uuidCount = 0
  /\ lastUpdateTime = 0
  /\ rafId = 0
  /\ pendingUpdate = FALSE
  /\ rafQueue = {}
  /\ nextRafId = 1
  /\ applied = <<>>
  /\ pubLog = <<>>
  /\ listMessages = <<>>
  /\ completedToolIds = {}

\* The assembler runs on the frames of the pool; the decoder that would
\* produce them is not started.
InitWith(frames, startTime) ==
  /\ AssemblerInit(frames, startTime)
  /\ isFetchingHistory = FALSE
  /\ currentSessionId = None
  /\ loading = "none"
  /\ sessionId = ""
  /\ source = <<>>
  /\ received = 0
  /\ buffer = <<>>
  /\ lines = <<>>
  /\ yielded = <<>>
  /\ dpc = "unused"
  /\ aborted = FALSE

\* The page has just loaded: the clock starts at 0.
Init == InitWith(SchedulerFrameIds, 0)

\* The page has been open for a while when the message is sent.
InitFold == InitWith(FrameIds, MaxTime - 2 * FrameMs)

InitMeta == InitWith(MetaFrameIds, MaxTime - 2 * FrameMs)

\* handleSendMessage up to the first await of the stream
Send(interrupt) ==
  /\ UNCHANGED << decoderVars, rendererVars, isFetchingHistory, currentSessionId, loading >>
  /\ sessionId' = IF IsSome(currentSessionId) THEN Val(currentSessionId) ELSE NewSessionId
  /\ pc = "idle"
  /\ ~isLoading
  \* handleInterruptResponse is reached from the interrupt block of a message
  /\ interrupt => \E i \in 1..Len(messages) : IsSome(messages[i].interrupt_info)
  /\ isLoading' = TRUE
  /\ messages' = Append(IF interrupt THEN messages ELSE Append(messages, userMsg),
                        HistoryMessage(initialAssistantMsg, 1, 0))
  /\ accumulatedMessage' = initialAssistantMsg
  /\ pc' = "streaming"
  /\ UNCHANGED << parts, toolObjs, currentToolCalls, uuidCount, lastUpdateTime, rafId,
                  pendingUpdate, rafQueue, nextRafId, now, pool, applied, pubLog >>

\* Mutant of ApplyDelta: a chunk that arrives while a publish is pending is
\* dropped instead of folded.
ApplyDelta_DropWhenPending(f) ==
  /\ UNCHANGED << decoderVars, pageVars, rendererVars >>
  /\ pc = "streaming"
  /\ Len(applied) < MaxDeltas
  /\ LET chunk == FramePool[f]
         st0 == FoldState(accumulatedMessage, parts, toolObjs, currentToolCalls, uuidCount)
         st == IF pendingUpdate THEN st0 ELSE ApplyChunk(st0, chunk)
         sc == IF IsSome(chunk.delta) THEN ScheduleUpdate(SchedulerState)
               ELSE SchedulerState
     IN /\ accumulatedMessage' = st.msg
        /\ parts' = st.parts
        /\ toolObjs' = st.toolObjs
        /\ currentToolCalls' = st.currentToolCalls
        /\ uuidCount' = st.uuidCount
        /\ pendingUpdate' = sc.pendingUpdate
        /\ rafId' = sc.rafId
        /\ rafQueue' = sc.rafQueue
        /\ nextRafId' = sc.nextRafId
  /\ applied' = Append(applied, f)
  /\ UNCHANGED << pc, isLoading, messages, lastUpdateTime, now, pool, pubLog >>

\* one iteration of the for-await loop
ApplyDelta(f) ==
  /\ UNCHANGED << decoderVars, pageVars, rendererVars >>
  /\ pc = "streaming"
  /\ Len(applied) < MaxDeltas
  /\ LET chunk == FramePool[f]
         st == ApplyChunk(FoldState(accumulatedMessage, parts, toolObjs,
                                    currentToolCalls, uuidCount), chunk)
         sc == IF IsSome(chunk.delta) THEN ScheduleUpdate(SchedulerState)
               ELSE SchedulerState
     IN /\ accumulatedMessage' = st.msg
        /\ parts' = st.parts
        /\ toolObjs' = st.toolObjs
        /\ currentToolCalls' = st.currentToolCalls
        /\ uuidCount' = st.uuidCount
        /\ pendingUpdate' = sc.pendingUpdate
        /\ rafId' = sc.rafId
        /\ rafQueue' = sc.rafQueue
        /\ nextRafId' = sc.nextRafId
  /\ applied' = Append(applied, f)
  /\ UNCHANGED << pc, isLoading, messages, lastUpdateTime, now, pool, pubLog >>

\* time passes while the loop awaits the next frame
Tick ==
  /\ UNCHANGED << decoderVars, pageVars, rendererVars >>
  /\ pc = "streaming"
  /\ now + FrameMs <= MaxTime
  /\ now' = now + FrameMs
  /\ UNCHANGED << pc, isLoading, messages, accumulatedMessage, parts, toolObjs,
                  currentToolCalls, uuidCount, lastUpdateTime, rafId, pendingUpdate,
                  rafQueue, nextRafId, pool, applied, pubLog >>

\* Mutant of RafFire: a callback that comes before the interval has elapsed
\* clears the flag and schedules nothing.
RafFire_DropWhenEarly(h) ==
  /\ UNCHANGED << decoderVars, pageVars, rendererVars >>
  /\ h \in rafQueue
  /\ now + FrameMs <= MaxTime
  /\ now' = now + FrameMs
  /\ IF IntervalElapsed(now', lastUpdateTime)
       THEN /\ messages' = UpdateLastMessage(messages, Snapshot(accumulatedMessage))
            /\ lastUpdateTime' = now'
            /\ pubLog' = Append(pubLog, PubEntry("raf", now'))
       ELSE UNCHANGED << messages, lastUpdateTime, pubLog >>
  /\ pendingUpdate' = FALSE
  /\ rafQueue' = rafQueue \ {h}
  /\ rafId' = 0
  /\ UNCHANGED << pc, isLoading, accumulatedMessage, parts, toolObjs,
                  currentToolCalls, uuidCount, pool, applied, nextRafId >>

\* the host runs the callback h at the next paint frame
RafFire(h) ==
  /\ UNCHANGED << decoderVars, pageVars, rendererVars >>
  /\ h \in rafQueue
  /\ now + FrameMs <= MaxTime
  /\ now' = now + FrameMs
  /\ IF IntervalElapsed(now', lastUpdateTime)
       THEN /\ messages' = UpdateLastMessage(messages, Snapshot(accumulatedMessage))
            /\ lastUpdateTime' = now'
            /\ pendingUpdate' = FALSE
            /\ rafQueue' = rafQueue \ {h}
            /\ nextRafId' = nextRafId
            /\ pubLog' = Append(pubLog, PubEntry("raf", now'))
       ELSE LET sc == ScheduleUpdate([pendingUpdate |-> FALSE, rafId |-> rafId,
                                      rafQueue |-> rafQueue \ {h},
                                      nextRafId |-> nextRafId])
            IN /\ pendingUpdate' = sc.pendingUpdate
               /\ rafQueue' = sc.rafQueue
               /\ nextRafId' = sc.nextRafId
               /\ UNCHANGED << messages, lastUpdateTime, pubLog >>
  /\ rafId' = 0
  /\ UNCHANGED << pc, isLoading, accumulatedMessage, parts, toolObjs,
                  currentToolCalls, uuidCount, pool, applied >>

\* Mutant of StreamEnd: the final update is left to the scheduler.
StreamEnd_NoFinalUpdate ==
  /\ UNCHANGED << decoderVars, rendererVars, isFetchingHistory, loading, sessionId >>
  /\ currentSessionId' = SessionAfterStream
  /\ pc = "streaming"
  /\ isLoading' = FALSE
  /\ pc' = "done"
  /\ UNCHANGED << messages, pubLog, rafQueue, accumulatedMessage, parts, toolObjs,
                  currentToolCalls, uuidCount, lastUpdateTime, rafId, pendingUpdate,
                  nextRafId, now, pool, applied >>

\* the stream ends normally: cancel, final update, finally
StreamEnd ==
  /\ UNCHANGED << decoderVars, rendererVars, isFetchingHistory, loading, sessionId >>
  /\ currentSessionId' = SessionAfterStream
  /\ pc = "streaming"
  /\ rafQueue' = IF rafId # 0 THEN rafQueue \ {rafId} ELSE rafQueue
  /\ messages' = UpdateLastMessage(messages, Snapshot(accumulatedMessage))
  /\ pubLog' = Append(pubLog, PubEntry("final", now))
  /\ isLoading' = FALSE
  /\ pc' = "done"
  /\ UNCHANGED << accumulatedMessage, parts, toolObjs, currentToolCalls, uuidCount,
                  lastUpdateTime, rafId, pendingUpdate, nextRafId, now, pool, applied >>

\* the frame source throws: catch, finally
StreamError ==
  /\ UNCHANGED << decoderVars, pageVars, rendererVars >>
  /\ pc = "streaming"
  /\ messages' = UpdateLastMessage(messages,
                   IF Len(messages) > 0 THEN WithErrorNotice(Last(messages)) ELSE userMsg)
  /\ pubLog' = Append(pubLog, PubEntry("error", now))
  /\ isLoading' = FALSE
  /\ pc' = "failed"
  /\ UNCHANGED << accumulatedMessage, parts, toolObjs, currentToolCalls, uuidCount,
                  lastUpdateTime, rafId, pendingUpdate, rafQueue, nextRafId, now, pool, applied >>

Next ==
  \/ \E interrupt \in BOOLEAN : Send(interrupt)
  \/ \E f \in pool : ApplyDelta(f)
  \/ Tick
  \/ \E h \in rafQueue : RafFire(h)
  \/ StreamEnd
  \/ StreamError

Spec == Init /\ [][Next]_vars

SpecFold == InitFold /\ [][Next]_vars

SpecMeta == InitMeta /\ [][Next]_vars

\* The host runs a callback it has queued at the next paint frame.
SpecLive == Init /\ [][Next]_vars /\ WF_vars(\E h \in rafQueue : RafFire(h))

\* ------------------------------------------------------ the frame decoder
\* Text is a sequence of one-character strings. The response bodies are
\* ASCII, where TextDecoder maps one byte to one character.
LF == "\n"
DataMarker == << "d", "a", "t", "a", ":", " " >>
DoneSentinel == DataMarker \o << "[", "D", "O", "N", "E", "]" >>

\* The characters String.prototype.trim removes and JSON.parse skips, as far
\* as the bodies contain them.
WhiteSpace == {" ", "\r", "\t", LF}

Digits == {"0", "1", "2", "3", "4", "5", "6", "7", "8", "9"}

\* The lines a backend may send, without their newline.
LinePool ==
  << DataMarker \o << "{", "}" >>,
     DataMarker \o << "{" >>,
     DoneSentinel,
     << ":", "x" >>,
     << >>,
     << " " >> \o DataMarker \o << "2", "\r" >>
  >>

\* What a body that does not end with a newline may end with.
TailPool == << DataMarker \o << "1" >> >>

RECURSIVE JoinLines(_)
JoinLines(ls) ==
  IF ls = <<>> THEN <<>> ELSE LinePool[Head(ls)] \o << LF >> \o JoinLines(Tail(ls))

RECURSIVE SeqsUpTo(_, _)
SeqsUpTo(S, n) ==
  IF n = 0 THEN {<<>>}
  ELSE LET shorter == SeqsUpTo(S, n - 1)
       IN shorter \cup {Append(q, x) : q \in {r \in shorter : Len(r) = n - 1}, x \in S}

\* The response bodies: up to MaxLines lines, the last of which may lack its
\* newline.
Sources ==
  {JoinLines(ls) : ls \in SeqsUpTo(1..Len(LinePool), MaxLines)}
    \cup {JoinLines(ls) \o TailPool[t] :
            ls \in SeqsUpTo(1..Len(LinePool), MaxLines - 1), t \in 1..Len(TailPool)}

\* s.split('\n')
RECURSIVE Split(_)
Split(s) ==
  IF \A i \in 1..Len(s) : s[i] # LF THEN << s >>
  ELSE LET i == CHOOSE j \in 1..Len(s) : s[j] = LF /\ \A k \in 1..(j - 1) : s[k] # LF
       IN << SubSeq(s, 1, i - 1) >> \o Split(SubSeq(s, i + 1, Len(s)))

Front(q) == SubSeq(q, 1, Len(q) - 1)

\* s.trim()
RECURSIVE Trim(_)
Trim(s) ==
  IF s = <<>> THEN s
  ELSE IF Head(s) \in WhiteSpace THEN Trim(Tail(s))
  ELSE IF Last(s) \in WhiteSpace THEN Trim(Front(s))
  ELSE s

\* s.startsWith(p), s.slice(k)
StartsWith(s, p) == Len(s) >= Len(p) /\ SubSeq(s, 1, Len(p)) = p
Slice(s, k) == SubSeq(s, k + 1, Len(s))

\* JSON.parse succeeds: the grammar of JSON for texts without quotes, commas,
\* signs and letters (numbers, empty objects, arrays of at most one value).
RECURSIVE IsJson(_)
IsJson(s) ==
  LET t == Trim(s)
      inner == Trim(SubSeq(t, 2, Len(t) - 1))
  IN \/ /\ t # <<>>
        /\ \A i \in 1..Len(t) : t[i] \in Digits
        /\ Len(t) > 1 => t[1] # "0"
     \/ /\ Len(t) >= 2 /\ t[1] = "{" /\ Last(t) = "}"
        /\ inner = <<>>
     \/ /\ Len(t) >= 2 /\ t[1] = "[" /\ Last(t) = "]"
        /\ inner = <<>> \/ IsJson(inner)

\* The value JSON.parse returns, written without insignificant white space;
\* None: it throws.
JsonParse(s) ==
  IF IsJson(s) THEN Some(SelectSeq(s, LAMBDA c : c \notin WhiteSpace)) ELSE None

\* The body of `for (const line of lines)`: the frame the line yields, None
\* when the line is skipped.
LineFrame(line) ==
  LET trimmedLine == Trim(line)
  IN IF trimmedLine = <<>> \/ trimmedLine = DoneSentinel THEN None
     ELSE IF StartsWith(trimmedLine, DataMarker) THEN JsonParse(Slice(trimmedLine, 6))
     ELSE None

\* Mutant of RunLines: a line that yields nothing ends the loop over the chunk.
RunLines_StopAtSkipped(ls) ==
  IF ls = <<>> THEN [frame |-> None, rest |-> <<>>]
  ELSE IF IsSome(LineFrame(Head(ls))) THEN [frame |-> LineFrame(Head(ls)), rest |-> Tail(ls)]
  ELSE [frame |-> None, rest |-> <<>>]

\* The loop over the lines of a chunk, run until it yields or is through.
RECURSIVE RunLines(_)
RunLines(ls) ==
  IF ls = <<>> THEN [frame |-> None, rest |-> <<>>]
  ELSE IF IsSome(LineFrame(Head(ls))) THEN [frame |-> LineFrame(Head(ls)), rest |-> Tail(ls)]
  ELSE RunLines(Tail(ls))

\* Mutant of KeepIncomplete: the text after the last newline is dropped.
KeepIncomplete_Drop(segs) == << >>

\* buffer = lines.pop() || ''
KeepIncomplete(segs) == Last(segs)

\* fetch has answered and the reader is taken; nothing is read yet.
InitDecoder ==
  /\ AssemblerInit({}, 0)
  /\ isFetchingHistory = FALSE
  /\ currentSessionId = None
  /\ loading = "none"
  /\ sessionId = ""
  /\ source \in Sources
  /\ received = 0
  /\ buffer = <<>>
  /\ lines = <<>>
  /\ yielded = <<>>
  /\ dpc = "reading"
  /\ aborted = FALSE

\* The generator runs on from the loop over `ls` until it yields or awaits
\* the next read.
RunOn(ls) ==
  LET r == RunLines(ls)
  IN /\ lines' = r.rest
     /\ yielded' = IF IsSome(r.frame) THEN Append(yielded, Val(r.frame)) ELSE yielded
     /\ dpc' = IF IsSome(r.frame) THEN "yielded" ELSE "reading"

\* reader.read() delivers the next n bytes.
Read(n) ==
  /\ dpc = "reading"
  /\ ~aborted
  /\ n \in 1..(Len(source) - received)
  /\ LET value == SubSeq(source, received + 1, received + n)
         segs == Split(buffer \o value)
     IN /\ buffer' = KeepIncomplete(segs)
        /\ RunOn(Front(segs))
  /\ received' = received + n
  /\ UNCHANGED << source, aborted >>
  /\ UNCHANGED << assemblerVars, pageVars, rendererVars >>

\* The consumer asks for the next frame of a generator suspended at yield.
Resume ==
  /\ dpc = "yielded"
  /\ RunOn(lines)
  /\ UNCHANGED << source, received, buffer, aborted >>
  /\ UNCHANGED << assemblerVars, pageVars, rendererVars >>

\* Mutant of ReadDone: what is left in the buffer is handled as a last line.
ReadDone_FlushBuffer ==
  /\ dpc = "reading"
  /\ received = Len(source)
  /\ dpc' = "returned"
  /\ yielded' = IF IsSome(LineFrame(buffer))
                  THEN Append(yielded, Val(LineFrame(buffer))) ELSE yielded
  /\ UNCHANGED << source, received, buffer, lines, aborted >>
  /\ UNCHANGED << assemblerVars, pageVars, rendererVars >>

\* reader.read() answers done: `if (done) break`. A body that has ended
\* before the signal is aborted is closed, not errored.
ReadDone ==
  /\ dpc = "reading"
  /\ received = Len(source)
  /\ dpc' = "returned"
  /\ UNCHANGED << source, received, buffer, lines, yielded, aborted >>
  /\ UNCHANGED << assemblerVars, pageVars, rendererVars >>

\* The caller aborts the signal it passed; fetch errors the body.
Abort ==
  /\ dpc \in {"reading", "yielded"}
  /\ ~aborted
  /\ aborted' = TRUE
  /\ UNCHANGED << source, received, buffer, lines, yielded, dpc >>
  /\ UNCHANGED << assemblerVars, pageVars, rendererVars >>

\* reader.read() on the errored body rejects and the generator throws.
ReadAborted ==
  /\ dpc = "reading"
  /\ aborted
  /\ dpc' = "thrown"
  /\ UNCHANGED << source, received, buffer, lines, yielded, aborted >>
  /\ UNCHANGED << assemblerVars, pageVars, rendererVars >>

NextDecoder ==
  \/ \E n \in 1..Len(source) : Read(n)
  \/ Resume
  \/ ReadDone
  \/ Abort
  \/ ReadAborted

SpecDecoder == InitDecoder /\ [][NextDecoder]_vars

\* ------------------------------------------------- what the stream delivered
\* The fragments of one chunk in the order the loop body handles them.
ChunkFragments(chunk) ==
  IF ~IsSome(chunk.delta) THEN <<>>
  ELSE LET d == Val(chunk.delta)
       IN (IF d.reasoning_content # ""
             THEN << [type |-> "reasoning", content |-> d.reasoning_content] >> ELSE <<>>)
          \o (IF IsSome(d.tool_calls) THEN << [type |-> "tool_calls", content |-> ""] >> ELSE <<>>)
          \o (IF IsSome(d.tool_result) THEN << [type |-> "tool_result", content |-> ""] >> ELSE <<>>)
          \o (IF d.content # "" THEN << [type |-> "text", content |-> d.content] >> ELSE <<>>)

RECURSIVE FragmentsOf(_)
FragmentsOf(fs) ==
  IF fs = <<>> THEN <<>>
  ELSE ChunkFragments(FramePool[Head(fs)]) \o FragmentsOf(Tail(fs))

\* The tool-call fragments for index i, in arrival order.
RECURSIVE ToolFragmentsOf(_, _)
ToolFragmentsOf(fs, i) ==
  IF fs = <<>> THEN <<>>
  ELSE LET chunk == FramePool[Head(fs)]
           tcs == IF IsSome(chunk.delta) /\ IsSome(Val(chunk.delta).tool_calls)
                    THEN Val(Val(chunk.delta).tool_calls) ELSE <<>>
       IN SelectSeq(tcs, LAMBDA tc : tc.index = i) \o ToolFragmentsOf(Tail(fs), i)

RECURSIVE ConcatField(_, _)
ConcatField(recs, field) ==
  IF recs = <<>> THEN "" ELSE Head(recs)[field] \o ConcatField(Tail(recs), field)

RECURSIVE ConcatLists(_)
ConcatLists(ls) == IF ls = <<>> THEN <<>> ELSE Head(ls) \o ConcatLists(Tail(ls))

PartsOfType(ps, t) == SelectSeq(ps, LAMBDA p : p.type = t)

\* Every delta so far carries text or reasoning, and nothing else that makes parts.
OnlyTextAndReasoning ==
  \A k \in 1..Len(applied) :
    LET chunk == FramePool[applied[k]]
    IN /\ IsSome(chunk.delta)
       /\ ~IsSome(Val(chunk.delta).tool_calls)
       /\ ~IsSome(Val(chunk.delta).tool_result)
       /\ Val(chunk.delta).content # "" \/ Val(chunk.delta).reasoning_content # ""

\* The run-length grouping of a fragment sequence: one group per maximal run
\* of fragments of one type, holding the concatenation of the run.
RunStarts(frs) == {i \in 1..Len(frs) : i = 1 \/ frs[i].type # frs[i - 1].type}
RunEnd(frs, s) ==
  LET later == {j \in RunStarts(frs) : j > s}
  IN IF later = {} THEN Len(frs)
     ELSE (CHOOSE j \in later : \A l \in later : j <= l) - 1
IsRunLengthGrouping(ps, frs) ==
  /\ Len(ps) = Cardinality(RunStarts(frs))
  /\ \A s \in RunStarts(frs) :
       LET k == Cardinality({j \in RunStarts(frs) : j <= s})
       IN /\ ps[k].type = frs[s].type
          /\ ps[k].content = ConcatField(SubSeq(frs, s, RunEnd(frs, s)), "content")

\* C1: a stream of text and reasoning fragments folds into the run-length
\* grouping of the fragment types in arrival order (a fragment of the tail's
\* type extends the tail, any other appends a part), and no two adjacent parts
\* have the same type.
C1_Coalescing ==
  /\ OnlyTextAndReasoning => IsRunLengthGrouping(parts, FragmentsOf(applied))
  /\ \A k \in 1..(Len(parts) - 1) : parts[k].type # parts[k + 1].type

\* content, reasoning, content gave three parts.
C1_Witness ==
  /\ OnlyTextAndReasoning
  /\ Len(parts) = 3
  /\ << parts[1].type, parts[2].type, parts[3].type >> = << "text", "reasoning", "text" >>

\* content, content gave one text part with the concatenation.
C1_WitnessMerge == OnlyTextAndReasoning /\ Len(parts) = 1 /\ parts[1].content = "ab"

\* C2: when the first fragment for an index carries an id and all later
\* fragments for it omit the id, there is exactly one accumulator for the
\* index; it has the first fragment's id and the concatenated name and
\* arguments.
C2_OneAccumulator ==
  \A i \in ToolIndexes :
    LET frs == ToolFragmentsOf(applied, i)
    IN (/\ frs # <<>>
        /\ frs[1].id # ""
        /\ \A k \in 2..Len(frs) : frs[k].id = "")
       => /\ currentToolCalls[i] # 0
          /\ toolObjs[currentToolCalls[i]].id = frs[1].id
          /\ toolObjs[currentToolCalls[i]].name = ConcatField(frs, "name")
          /\ toolObjs[currentToolCalls[i]].arguments = ConcatField(frs, "arguments")
          /\ Cardinality({o \in 1..Len(toolObjs) : toolObjs[o].slot = i}) = 1

\* id "x" with name "ge", then "t" and "{}" without id: one call get({}).
C2_Witness ==
  /\ Len(ToolFragmentsOf(applied, 0)) = 2
  /\ currentToolCalls[0] # 0
  /\ toolObjs[currentToolCalls[0]].id = "x"
  /\ toolObjs[currentToolCalls[0]].name = "get"
  /\ toolObjs[currentToolCalls[0]].arguments = "{}"

\* C3: the id stored for a tool-call index never changes once it is set.
C3_IdNeverChanges ==
  [][\A i \in ToolIndexes :
       currentToolCalls[i] # 0
         => /\ currentToolCalls'[i] # 0
            /\ toolObjs'[currentToolCalls'[i]].id = toolObjs[currentToolCalls[i]].id]_vars

\* C4: the denormalized fields of the message under construction agree with
\* its parts: content with the text parts, reasoning_content with the
\* reasoning parts, tool_result with the tool_result parts.
C4_LegacyFieldsAgree ==
  /\ accumulatedMessage.content = ConcatField(PartsOfType(parts, "text"), "content")
  /\ accumulatedMessage.reasoning_content
       = ConcatField(PartsOfType(parts, "reasoning"), "content")
  /\ (IF IsSome(accumulatedMessage.tool_result)
        THEN Val(accumulatedMessage.tool_result) ELSE <<>>)
       = ConcatLists([k \in 1..Len(PartsOfType(parts, "tool_result")) |->
                        PartsOfType(parts, "tool_result")[k].tool_result])

\* two text parts, two reasoning parts and a tool result have been folded.
C4_Witness ==
  /\ Len(PartsOfType(parts, "text")) = 2
  /\ Len(PartsOfType(parts, "reasoning")) = 2
  /\ Len(PartsOfType(parts, "tool_result")) = 1
  /\ accumulatedMessage.content # ""

\* The tool calls a renderer reads through a list of object references.
Resolve(refs) == [k \in 1..Len(refs) |->
                    [id |-> toolObjs[refs[k]].id, name |-> toolObjs[refs[k]].name,
                     arguments |-> toolObjs[refs[k]].arguments]]
SeqRange(s) == {s[k] : k \in 1..Len(s)}

\* C5: once a delta carried tool_calls, the flattened tool_calls field lists
\* the accumulators in ascending index order and holds the same set of tool
\* calls as the tool_calls parts.
C5_FlattenedAgrees ==
  IsSome(accumulatedMessage.tool_calls) =>
    LET flat == Val(accumulatedMessage.tool_calls)
    IN /\ \A a, b \in 1..Len(flat) :
            a < b => toolObjs[flat[a]].slot < toolObjs[flat[b]].slot
       /\ SeqRange(Resolve(flat))
            = UNION {SeqRange(Resolve(parts[k].tool_calls)) : k \in 1..Len(parts)}

\* C6: a tool_calls part never holds two entries for the same index.
C6_NoDuplicateIndex ==
  \A k \in 1..Len(parts) :
    \A a, b \in 1..Len(parts[k].tool_calls) :
      a # b => toolObjs[parts[k].tool_calls[a]].slot # toolObjs[parts[k].tool_calls[b]].slot

\* ------------------------------------------------------ scheduler claims
\* The concatenation of all content fragments delivered so far.
StreamedContent ==
  ConcatField(SelectSeq(FragmentsOf(applied), LAMBDA fr : fr.type = "text"), "content")

PublishesBy(by) == SelectSeq(pubLog, LAMBDA e : e.by = by)

\* C7: after a normal end, whatever the timing of frames and paint callbacks,
\* the message shown last is the latest accumulated state, and its content is
\* the concatenation of all content fragments of the stream.
C7_FinalSnapshotComplete ==
  pc = "done" =>
    /\ Len(messages) > 0
    /\ Last(messages) = Snapshot(accumulatedMessage)
    /\ Last(messages).content = StreamedContent

\* three deltas, two of them with text, ended with the final update as the
\* only publish.
C7_Witness ==
  /\ pc = "done"
  /\ Len(applied) = 3
  /\ Len(pubLog) = 1
  /\ Len(messages) > 0
  /\ Last(messages).content = "ab"

\* C8: at the end of the stream the scheduled callback is cancelled, and the
\* forced final publish is the only and the last publish after the end.
C8_NothingAfterFinal ==
  pc = "done" =>
    /\ rafQueue = {}
    /\ Len(PublishesBy("final")) = 1
    /\ Last(pubLog).by = "final"

\* C9: after a transport error the pending callback is cancelled and the
\* message shown holds everything streamed, followed by the error notice, for
\* good.
C9_ErrorKeepsProgress ==
  pc = "failed" =>
    /\ rafQueue = {}
    /\ Len(messages) > 0
    /\ Last(messages).content = StreamedContent \o ErrorNotice

\* The time of the last scheduler publish (the clock's origin when none).
LastSchedulerPublish ==
  IF PublishesBy("raf") = <<>> THEN 0 ELSE Last(PublishesBy("raf")).at

\* A step in which the host runs a paint callback.
CallbackRuns == now' # now /\ rafQueue' # rafQueue

\* C10: a paint callback publishes only when the minimum interval has elapsed
\* since the last scheduler publish, and then records the time; otherwise it
\* re-arms without publishing. Two consecutive scheduler publishes are at
\* least the minimum interval apart.
C10_Throttle ==
  /\ [](/\ \A k \in 2..Len(PublishesBy("raf")) :
             PublishesBy("raf")[k].at - PublishesBy("raf")[k - 1].at >= MIN_UPDATE_INTERVAL
        /\ PublishesBy("raf") # <<>> => lastUpdateTime = LastSchedulerPublish)
  /\ [][CallbackRuns =>
          IF now' - LastSchedulerPublish >= MIN_UPDATE_INTERVAL
            THEN /\ Len(pubLog') = Len(pubLog) + 1
                 /\ Last(pubLog').by = "raf"
                 /\ lastUpdateTime' = now'
            ELSE /\ pubLog' = pubLog
                 /\ messages' = messages
                 /\ Cardinality(rafQueue') = Cardinality(rafQueue)]_vars

\* two scheduler publishes have happened in one stream, with a re-arm between.
C10_Witness ==
  /\ Len(PublishesBy("raf")) = 2
  /\ nextRafId > 3

\* ------------------------------------------------- the fold as a function
\* The fold state before the first chunk.
InitialFoldState ==
  FoldState(initialAssistantMsg, <<>>, <<>>, [i \in ToolIndexes |-> 0], 0)

\* The chunks fs folded in order into the empty message. The n-th generated
\* tool-call id is the n-th value of the uuid source.
RECURSIVE FoldAll(_)
FoldAll(fs) ==
  IF fs = <<>> THEN InitialFoldState
  ELSE ApplyChunk(FoldAll(SubSeq(fs, 1, Len(fs) - 1)), FramePool[Last(fs)])

\* C11: the assembled message depends only on the sequence of frames: it is
\* the fold of the frames consumed, whatever paint callbacks ran and whatever
\* was published in between, and after a normal end the message in the
\* history is a copy of it.
C11_TimingIndependent ==
  LET folded == FoldAll(applied)
  IN /\ accumulatedMessage = folded.msg
     /\ parts = folded.parts
     /\ toolObjs = folded.toolObjs
     /\ currentToolCalls = folded.currentToolCalls
     /\ pc = "done" => Last(messages) = Snapshot(folded.msg)

\* a stream of three frames ended after a scheduler publish in its middle.
C11_Witness ==
  /\ pc = "done"
  /\ Len(applied) = 3
  /\ Len(PublishesBy("raf")) >= 1
  /\ pubLog[1].upto < 3
  /\ Len(parts) >= 2

\* What a renderer reads through a message of the history: the references to
\* the parts array, the ToolCall objects and the usage object are followed.
ResolveIn(objs, refs) ==
  [k \in 1..Len(refs) |->
     [id |-> objs[refs[k]].id, name |-> objs[refs[k]].name,
      arguments |-> objs[refs[k]].arguments]]

ViewOf(m, ps, objs, usageObj) ==
  [id |-> m.id, message_id |-> m.message_id, role |-> m.role, content |-> m.content,
   reasoning_content |-> m.reasoning_content,
   tool_calls |-> IF IsSome(m.tool_calls) THEN Some(ResolveIn(objs, Val(m.tool_calls)))
                  ELSE None,
   tool_result |-> m.tool_result, interrupt_info |-> m.interrupt_info,
   interrupted |-> m.interrupted,
   parts |-> IF m.partsRef = 1
               THEN Some([k \in 1..Len(ps) |->
                            [ps[k] EXCEPT !.tool_calls = ResolveIn(objs, @)]])
               ELSE None,
   usage |-> IF m.usageRef = 1 THEN usageObj ELSE None]

\* The message the renderer sees now.
Visible == ViewOf(Last(messages), parts, toolObjs, accumulatedMessage.usage)

\* The message a renderer would see had exactly the first k frames been folded.
FoldView(k) ==
  LET st == FoldAll(SubSeq(applied, 1, k))
  IN ViewOf(Snapshot(st.msg), st.parts, st.toolObjs, st.msg.usage)

\* C12: while the stream runs and after its normal end, the message the
\* renderer sees is the fold of some prefix of the frames consumed, never a
\* mix of two prefixes.
C12_VisibleIsPrefix ==
  pc \in {"streaming", "done"} =>
    \E k \in 0..Len(applied) : Visible = FoldView(k)

\* ------------------------------------------------------------ usage, identity
\* The frames of fs that carry usage.
UsageFrames(fs) == SelectSeq(fs, LAMBDA f : IsSome(FramePool[f].usage))

RECURSIVE SumUsage(_)
SumUsage(fs) ==
  IF fs = <<>> THEN Usage(0, 0, 0)
  ELSE LET u == Val(FramePool[Head(fs)].usage)
           r == SumUsage(Tail(fs))
       IN Usage(u.prompt_tokens + r.prompt_tokens,
                u.completion_tokens + r.completion_tokens,
                u.total_tokens + r.total_tokens)

\* C13: the usage of the assembled message is absent until a frame carries
\* usage, and from then on it is the element-wise sum of prompt_tokens,
\* completion_tokens and total_tokens over the frames that carried usage;
\* frames without usage do not change it.
C13_UsageIsSum ==
  accumulatedMessage.usage =
    IF UsageFrames(applied) = <<>> THEN None ELSE Some(SumUsage(UsageFrames(applied)))

\* Reports of 10 and 5 prompt tokens, and a frame without usage, total 15.
C13_Witness ==
  /\ Len(applied) = 3
  /\ Len(UsageFrames(applied)) = 2
  /\ IsSome(accumulatedMessage.usage)
  /\ Val(accumulatedMessage.usage) = Usage(15, 3, 18)

\* The frame carries an id or a message_id and nothing else.
IdentityOnly(f) ==
  LET chunk == FramePool[f]
  IN /\ chunk.id # "" \/ chunk.message_id # ""
     /\ ~IsSome(chunk.usage)
     /\ ~IsSome(chunk.delta)

\* The message relabelled with the identity fields of a chunk.
Relabelled(m, chunk) ==
  [m EXCEPT !.id = IF chunk.id # "" THEN chunk.id ELSE @,
            !.message_id = IF chunk.message_id # "" THEN chunk.message_id ELSE @]

\* The loop has just consumed frame f.
Consumed(f) == applied' = Append(applied, f)

\* C14: consuming a frame that carries only identity relabels the message and
\* changes nothing else (parts, content, reasoning_content, tool calls, tool
\* results, usage); when the message already has that id and message_id the
\* step changes nothing of the message. The identity update of any frame is a
\* relabelling, and a second application of it is the identity.
C14_IdentityOnlyRelabels ==
  [][ /\ \A f \in pool :
           Consumed(f) /\ IdentityOnly(f) =>
             /\ accumulatedMessage' = Relabelled(accumulatedMessage, FramePool[f])
             /\ UNCHANGED << parts, toolObjs, currentToolCalls, uuidCount, messages >>
             /\ Relabelled(accumulatedMessage, FramePool[f]) = accumulatedMessage
                  => UNCHANGED accumulatedMessage
      /\ \A f \in pool :
           LET st == FoldState(accumulatedMessage, parts, toolObjs,
                               currentToolCalls, uuidCount)
               once == ApplyIdentity(st, FramePool[f])
           IN /\ once = [st EXCEPT !.msg = Relabelled(st.msg, FramePool[f])]
              /\ ApplyIdentity(once, FramePool[f]) = once
    ]_vars

\* Text and usage were accumulated, then the same relabel arrived twice.
C14_Witness ==
  /\ Len(applied) = 3
  /\ IdentityOnly(applied[2]) /\ applied[3] = applied[2]
  /\ accumulatedMessage.id = FramePool[applied[3]].id
  /\ accumulatedMessage.content # ""
  /\ IsSome(accumulatedMessage.usage)
  /\ Len(parts) = 1

\* ------------------------------------------------------- order within a delta
PartTypes(ps) == [k \in 1..Len(ps) |-> ps[k].type]

\* The fragment types with every run of equal neighbours reduced to one.
RECURSIVE Dedupe(_)
Dedupe(ts) ==
  IF Len(ts) <= 1 THEN ts
  ELSE IF ts[1] = ts[2] THEN Dedupe(Tail(ts))
       ELSE << ts[1] >> \o Dedupe(Tail(ts))

FragmentTypes(fs) == PartTypes(FragmentsOf(fs))

\* C15: the types of the parts are the types of the fragments taken delta by
\* delta in arrival order and, within one delta, in the order reasoning,
\* tool_calls, tool_result, text, with neighbours of one type merged.
C15_FixedOrder == PartTypes(parts) = Dedupe(FragmentTypes(applied))

\* One delta with all four fields on an empty message gave four parts.
C15_Witness ==
  /\ Len(applied) = 1
  /\ Len(ChunkFragments(FramePool[applied[1]])) = 4
  /\ PartTypes(parts) = << "reasoning", "tool_calls", "tool_result", "text" >>

\* A later delta's reasoning comes after an earlier delta's text.
C15_WitnessAcross ==
  /\ Len(applied) = 2
  /\ PartTypes(parts) = << "text", "reasoning" >>

\* ------------------------------------------------------------------ interrupt
CarriesInterrupt(f) ==
  IsSome(FramePool[f].delta) /\ IsSome(Val(FramePool[f].delta).interrupt_info)

\* C16: consuming a delta with interrupt_info sets the message's
\* interrupt_info to it and interrupted to false, and leaves the parts as
\* they were; the handler gives interrupted = false also for a message whose
\* interrupted flag is true.
C16_InterruptClears ==
  [][ \A f \in pool :
        CarriesInterrupt(f) =>
          /\ Consumed(f) =>
               /\ accumulatedMessage'.interrupt_info = Val(FramePool[f].delta).interrupt_info
               /\ accumulatedMessage'.interrupted = Some(FALSE)
               /\ parts' = parts
               /\ toolObjs' = toolObjs
          /\ LET st == FoldState([accumulatedMessage EXCEPT !.interrupted = Some(TRUE)],
                                 parts, toolObjs, currentToolCalls, uuidCount)
                 after == HandleInterrupt(st, Val(FramePool[f].delta))
             IN /\ after.msg.interrupted = Some(FALSE)
                /\ after.msg.interrupt_info = Val(FramePool[f].delta).interrupt_info
                /\ after.parts = st.parts
    ]_vars

\* Text arrived, then two interrupts: the second found interrupted = false.
C16_Witness ==
  /\ Len(applied) = 3
  /\ CarriesInterrupt(applied[2]) /\ CarriesInterrupt(applied[3])
  /\ accumulatedMessage.interrupted = Some(FALSE)
  /\ IsSome(accumulatedMessage.interrupt_info)
  /\ Len(parts) = 1

\* ---------------------------------------------------- what the body contains
\* The newline-terminated lines of a text, found character by character.
RECURSIVE ScanLines(_, _)
ScanLines(bytes, cur) ==
  IF bytes = <<>> THEN <<>>
  ELSE IF Head(bytes) = LF THEN << cur >> \o ScanLines(Tail(bytes), <<>>)
  ELSE ScanLines(Tail(bytes), Append(cur, Head(bytes)))

CompleteLines(bytes) == ScanLines(bytes, <<>>)

Received == SubSeq(source, 1, received)

AllWhiteSpace(s) == \A i \in 1..Len(s) : s[i] \in WhiteSpace

\* The text between the white space a line begins and ends with.
Core(line) ==
  IF AllWhiteSpace(line) THEN <<>>
  ELSE LET a == CHOOSE i \in 1..Len(line) :
                  line[i] \notin WhiteSpace /\ AllWhiteSpace(SubSeq(line, 1, i - 1))
           b == CHOOSE j \in 1..Len(line) :
                  line[j] \notin WhiteSpace /\ AllWhiteSpace(SubSeq(line, j + 1, Len(line)))
       IN SubSeq(line, a, b)

\* The text is the data marker followed by a JSON value, and is not the sentinel.
IsDataLine(text) ==
  /\ StartsWith(text, DataMarker)
  /\ text # DoneSentinel
  /\ IsJson(Slice(text, Len(DataMarker)))

\* The frames of the texts that are data lines, in order.
RECURSIVE FramesOfTexts(_)
FramesOfTexts(ts) ==
  IF ts = <<>> THEN <<>>
  ELSE (IF IsDataLine(Head(ts))
          THEN << Val(JsonParse(Slice(Head(ts), Len(DataMarker)))) >> ELSE <<>>)
       \o FramesOfTexts(Tail(ts))

\* The frames of the lines that are data lines as they were sent, and of
\* those that are data lines without the white space around them.
FramesAsSent(ls) == FramesOfTexts(ls)
FramesOfCores(ls) == FramesOfTexts([k \in 1..Len(ls) |-> Core(ls[k])])

\* The generator is not in the middle of a chunk.
BetweenChunks == dpc \in {"reading", "returned", "thrown"}

\* C17 as stated: between chunks the frames yielded are those of the complete
\* lines received that start with the data marker, are not the sentinel and
\* carry valid JSON, in line order; any other line gives no frame and the
\* generator throws only after an abort.
C17_SkipsByLine ==
  /\ dpc = "thrown" => aborted
  /\ BetweenChunks => yielded = FramesAsSent(CompleteLines(Received))

\* C17 amended: the same with every line read without the white space around
\* it: a line whose core is empty, does not start with the data marker, is
\* the sentinel or carries invalid JSON gives no frame, no error and does not
\* end the stream; the lines whose core is a data line are all yielded, in
\* line order.
C17_SkipsByTrimmedLine ==
  /\ dpc = "thrown" => aborted
  /\ BetweenChunks => yielded = FramesOfCores(CompleteLines(Received))

\* A malformed line between two data lines: both frames were yielded and the
\* generator returned.
C17_Witness ==
  /\ dpc = "returned"
  /\ ~aborted
  /\ Len(CompleteLines(source)) = 3
  /\ IsDataLine(Core(CompleteLines(source)[1]))
  /\ StartsWith(CompleteLines(source)[2], DataMarker)
  /\ ~IsJson(Slice(CompleteLines(source)[2], Len(DataMarker)))
  /\ IsDataLine(Core(CompleteLines(source)[3]))
  /\ Len(yielded) = 2

\* The frames a generator yields for a body that arrives as one chunk, and
\* what it then holds in its buffer.
RECURSIVE DrainLines(_)
DrainLines(ls) ==
  IF IsSome(RunLines(ls).frame)
    THEN << Val(RunLines(ls).frame) >> \o DrainLines(RunLines(ls).rest)
    ELSE <<>>

OneChunk(bytes) ==
  [frames |-> DrainLines(Front(Split(bytes))), buffer |-> KeepIncomplete(Split(bytes))]

NewlinesIn(bytes) == Cardinality({i \in 1..Len(bytes) : bytes[i] = LF})

\* C18: however the bytes received so far were cut into chunks, the frames
\* yielded, with those of the lines of the current chunk still to come, and
\* the buffer are those of a generator that got the same bytes as one chunk;
\* the buffer holds no newline, and no more frames are yielded than newlines
\* were received.
C18_ChunkingIndependent ==
  /\ yielded \o DrainLines(lines) = OneChunk(Received).frames
  /\ buffer = OneChunk(Received).buffer
  /\ NewlinesIn(buffer) = 0
  /\ Len(yielded) <= NewlinesIn(Received)

\* After one frame, all of the next data line has arrived except its
\* newline: the line waits in the buffer and its frame is not yielded.
C18_Witness ==
  /\ dpc = "reading"
  /\ Len(yielded) = 1
  /\ IsDataLine(buffer)
  /\ received < Len(source)
  /\ source[received + 1] = LF

\* C19: the generator returns only when the source has signalled the end of
\* the data, it takes no step after it has returned, and the step that
\* returns yields nothing: the frames are those of the newline-terminated
\* lines, whatever the buffer holds.
C19_EndDiscardsBuffer ==
  [][ /\ dpc # "returned"
      /\ dpc' = "returned" =>
           /\ received = Len(source)
           /\ yielded' = yielded
           /\ yielded' = FramesOfCores(CompleteLines(source))
    ]_vars

\* The generator has returned with a complete data line, without newline, in
\* its buffer.
C19_Witness ==
  /\ dpc = "returned"
  /\ IsDataLine(buffer)
  /\ Len(yielded) = Len(FramesOfCores(CompleteLines(source)))
  /\ Len(yielded) >= 1

\* C20: once the signal is aborted the generator yields no further frame.
C20_NoFrameAfterAbort == [][aborted => yielded' = yielded]_vars

\* ------------------------------------------------------------ the renderer
MaxHistory == 3

Call(id) == [id |-> id, name |-> "search", arguments |-> "{}"]

\* A message as MessageList reads it.
ListMessage(role, tool_calls, tool_result, ps, tool_call_id) ==
  [id |-> "t", message_id |-> "m", role |-> role, content |-> "",
   reasoning_content |-> "", tool_calls |-> tool_calls, tool_result |-> tool_result,
   parts |-> ps, tool_call_id |-> tool_call_id]

\* The messages a conversation is made of: a question, an assistant turn that
\* calls x and a tool whose call has no id, results carried by a part, by the
\* legacy field and by a message of role tool, a streamed turn that holds the
\* call y and its result, and a turn that calls z and holds a result without id.
RenderPool ==
  << ListMessage("user", None, None, None, ""),
     ListMessage("assistant", Some(<< Call("x"), Call("") >>), None,
                 Some(<< ToolCallsPart(<< Call("x"), Call("") >>) >>), ""),
     ListMessage("assistant", None, None,
                 Some(<< ToolResultPart(<< ToolResult("x", "r") >>) >>), ""),
     ListMessage("assistant", None, Some(<< ToolResult("y", "r") >>), None, ""),
     ListMessage("tool", None, None, None, "z"),
     ListMessage("assistant", Some(<< Call("y") >>), Some(<< ToolResult("y", "r") >>),
                 Some(<< ToolCallsPart(<< Call("y") >>),
                         ToolResultPart(<< ToolResult("y", "r") >>) >>), ""),
     ListMessage("assistant", Some(<< Call("z") >>), None,
                 Some(<< ToolResultPart(<< ToolResult("", "r") >>) >>), "") >>

\* res => { if (res.tool_call_id) ids.add(res.tool_call_id) }
ResultIds(rs) == { rs[k].tool_call_id : k \in 1..Len(rs) } \ {""}

\* Mutant of MessageResultIds: only the legacy field is read.
MessageResultIds_LegacyOnly(msg) ==
  IF IsSome(msg.tool_result) THEN ResultIds(Val(msg.tool_result)) ELSE {}

\* the body of messages.forEach in completedToolIds
MessageResultIds(msg) ==
  (IF IsSome(msg.tool_result) THEN ResultIds(Val(msg.tool_result)) ELSE {})
  \cup (IF IsSome(msg.parts)
          THEN UNION { IF Val(msg.parts)[k].type = "tool_result"
                         THEN ResultIds(Val(msg.parts)[k].tool_result) ELSE {}
                       : k \in 1..Len(Val(msg.parts)) }
          ELSE {})
  \cup (IF msg.role \in {"tool", "tool_result"} /\ msg.tool_call_id # ""
          THEN {msg.tool_call_id} ELSE {})

CompletedToolIds(msgs) == UNION { MessageResultIds(msgs[i]) : i \in 1..Len(msgs) }

\* ToolCallsBlock: isCompleted={completedIds ? completedIds.has(call.id) : true}
IsCompleted(call, completedIds) == call.id \in completedIds

InitRender ==
  /\ InitWith({}, 0)

\* The parent appends a message; MessageList renders with the new prop.
RenderAppended(m) ==
  /\ Len(listMessages) < MaxHistory
  /\ listMessages' = Append(listMessages, RenderPool[m])
  /\ completedToolIds' = CompletedToolIds(listMessages')
  /\ UNCHANGED << assemblerVars, decoderVars, pageVars >>

\* The parent removes a message; MessageList renders with the new prop.
RenderRemoved(i) ==
  /\ i \in 1..Len(listMessages)
  /\ listMessages' = [k \in 1..(Len(listMessages) - 1) |->
                        IF k < i THEN listMessages[k] ELSE listMessages[k + 1]]
  /\ completedToolIds' = CompletedToolIds(listMessages')
  /\ UNCHANGED << assemblerVars, decoderVars, pageVars >>

NextRender ==
  \/ \E m \in 1..Len(RenderPool) : RenderAppended(m)
  \/ \E i \in 1..MaxHistory : RenderRemoved(i)

SpecRender == InitRender /\ [][NextRender]_vars

\* ------------------------------------------------------------------ C21
\* The tool calls a message shows: the legacy field and the tool_calls parts.
CallsOf(msg) ==
  (IF IsSome(msg.tool_calls)
     THEN { Val(msg.tool_calls)[k] : k \in 1..Len(Val(msg.tool_calls)) } ELSE {})
  \cup (IF IsSome(msg.parts)
          THEN UNION { { Val(msg.parts)[k].tool_calls[n]
                         : n \in 1..Len(Val(msg.parts)[k].tool_calls) }
                       : k \in 1..Len(Val(msg.parts)) }
          ELSE {})

\* msg carries a tool result for the call id, in the legacy field or in a part
CarriesResult(msg, id) ==
  \/ /\ IsSome(msg.tool_result)
     /\ \E k \in 1..Len(Val(msg.tool_result)) : Val(msg.tool_result)[k].tool_call_id = id
  \/ /\ IsSome(msg.parts)
     /\ \E k \in 1..Len(Val(msg.parts)) :
          /\ Val(msg.parts)[k].type = "tool_result"
          /\ \E n \in 1..Len(Val(msg.parts)[k].tool_result) :
               Val(msg.parts)[k].tool_result[n].tool_call_id = id

\* msg is itself the result of the call id
IsResultOf(msg, id) == msg.role \in {"tool", "tool_result"} /\ msg.tool_call_id = id

\* C21 as stated: a tool call is reported as completed exactly when a later
\* message of the conversation carries a tool result with the call's id.
C21_CompletedByLaterResult ==
  \A i \in 1..Len(listMessages) : \A c \in CallsOf(listMessages[i]) :
    IsCompleted(c, completedToolIds)
      <=> \E j \in (i + 1)..Len(listMessages) : CarriesResult(listMessages[j], c.id)

\* C21, amended: a tool call is reported as completed exactly when its id is
\* not empty and some message of the history as it is now, at any position
\* (the call's own message included), carries a tool result with that id in
\* the legacy field or in a tool_result part, or is a message of role tool
\* with that tool_call_id. A result that matches no call changes nothing.
C21_CompletedByAnyResult ==
  \A i \in 1..Len(listMessages) : \A c \in CallsOf(listMessages[i]) :
    IsCompleted(c, completedToolIds)
      <=> /\ c.id # ""
          /\ \E j \in 1..Len(listMessages) :
               CarriesResult(listMessages[j], c.id) \/ IsResultOf(listMessages[j], c.id)

\* A call completed by a later part, a call that is not completed, and a
\* result that matches no call, in one history.
C21_Witness ==
  /\ Len(listMessages) = 3
  /\ \E i \in 1..2 : \E c \in CallsOf(listMessages[i]) :
       /\ IsCompleted(c, completedToolIds)
       /\ ~CarriesResult(listMessages[i], c.id)
       /\ \E j \in (i + 1)..3 : CarriesResult(listMessages[j], c.id)
  /\ \E i \in 1..3 : \E c \in CallsOf(listMessages[i]) : ~IsCompleted(c, completedToolIds)
  /\ \E id \in completedToolIds :
       \A i \in 1..3 : \A c \in CallsOf(listMessages[i]) : c.id # id

\* ------------------------------------------------------------------ C22
\* C22: once the stream has ended, normally or with an error, no step changes
\* the history any more: the message the stream produced keeps its id, its
\* content and its parts.
C22_EndedIsImmutable ==
  [][(pc = "done" \/ pc = "failed") => (messages' = messages /\ parts' = parts)]_vars

\* ---------------------------------------------------------------- the page
\* What the page does around a stream: history loads, a new chat, deleting a
\* turn. A session with two stored turns is open.
OpenSessionId == "s1"

StoredMessage(id, message_id, role, content) ==
  HistoryMessage([BlankMessage(id, role, content) EXCEPT !.message_id = message_id], 0, 0)

\* getChatMessages, reversed: the newest page, and what a request for older
\* messages can return (the window moves when messages were added meanwhile)
LatestPage ==
  << StoredMessage("h1", "p2", "user", "q1"), StoredMessage("h1", "p3", "assistant", "a1") >>

OlderPages ==
  { << StoredMessage("h0", "p0", "user", "q0"), StoredMessage("h0", "p1", "assistant", "a0") >>,
    << StoredMessage("h0", "p1", "assistant", "a0"), StoredMessage("h1", "p2", "user", "q1") >> }

AppFrameIds == {1, 10}

\* The page has selected the session and loadMessages(id) awaits the server.
InitApp ==
  /\ pool = AppFrameIds
  /\ now = 0
  /\ pc = "idle"
  /\ isLoading = TRUE
  /\ messages = <<>>
  /\ accumulatedMessage = initialAssistantMsg
  /\ parts = <<>>
  /\ toolObjs = <<>>
  /\ currentToolCalls = [i \in ToolIndexes |-> 0]
  /\ uuidCount = 0
  /\ lastUpdateTime = 0
  /\ rafId = 0
  /\ pendingUpdate = FALSE
  /\ rafQueue = {}
  /\ nextRafId = 1
  /\ applied = <<>>
  /\ pubLog = <<>>
  /\ listMessages = <<>>
  /\ completedToolIds = {}
  /\ source = <<>>
  /\ received = 0
  /\ buffer = <<>>
  /\ lines = <<>>
  /\ yielded = <<>>
  /\ dpc = "unused"
  /\ aborted = FALSE
  /\ isFetchingHistory = FALSE
  /\ currentSessionId = Some(OpenSessionId)
  /\ loading = "initial"
  /\ sessionId = ""

\* onLoadMore: loadMessages(currentSessionId, true) up to its await
LoadMore ==
  /\ IsSome(currentSessionId)
  /\ ~(isLoading /\ Len(messages) = 0)
  /\ ~isLoading
  /\ ~isFetchingHistory
  /\ isFetchingHistory' = TRUE
  /\ loading' = "more"
  /\ UNCHANGED << pc, isLoading, messages, accumulatedMessage, parts, toolObjs,
                  currentToolCalls, uuidCount, lastUpdateTime, rafId, pendingUpdate,
                  rafQueue, nextRafId, now, pool, applied, pubLog,
                  currentSessionId, sessionId >>
  /\ UNCHANGED << decoderVars, rendererVars >>

\* setMessages(prev => ...) of loadMessages on the page the server returned
MergePage(prev, orderedMsgs, isLoadMore) ==
  LET existingIds == IF isLoadMore
                       THEN { prev[i].message_id : i \in 1..Len(prev) } \ {""}
                       ELSE {}
      Unique(m) == m.message_id = "" \/ m.message_id \notin existingIds
      uniqueNewMsgs == SelectSeq(orderedMsgs, Unique)
  IN IF isLoadMore THEN uniqueNewMsgs \o prev ELSE uniqueNewMsgs

\* Mutant of LoadingAfterLoad: the finally block clears isLoading for every load.
LoadingAfterLoad_AlwaysCleared(isLoadMore, flag) == FALSE

\* finally { if (isLoadMore) setIsFetchingHistory(false) else setIsLoading(false) }
LoadingAfterLoad(isLoadMore, flag) == IF isLoadMore THEN flag ELSE FALSE

\* loadMessages after its await: the server answered with a page
LoadDone(page) ==
  /\ loading # "none"
  /\ messages' = MergePage(messages, page, loading = "more")
  /\ isLoading' = LoadingAfterLoad(loading = "more", isLoading)
  /\ isFetchingHistory' = IF loading = "more" THEN FALSE ELSE isFetchingHistory
  /\ loading' = "none"
  /\ UNCHANGED << pc, accumulatedMessage, parts, toolObjs,
                  currentToolCalls, uuidCount, lastUpdateTime, rafId, pendingUpdate,
                  rafQueue, nextRafId, now, pool, applied, pubLog,
                  currentSessionId, sessionId >>
  /\ UNCHANGED << decoderVars, rendererVars >>

\* loadMessages after its await: the request failed
LoadFailed ==
  /\ loading # "none"
  /\ messages' = IF loading = "more" THEN messages ELSE <<>>
  /\ isLoading' = LoadingAfterLoad(loading = "more", isLoading)
  /\ isFetchingHistory' = IF loading = "more" THEN FALSE ELSE isFetchingHistory
  /\ loading' = "none"
  /\ UNCHANGED << pc, accumulatedMessage, parts, toolObjs,
                  currentToolCalls, uuidCount, lastUpdateTime, rafId, pendingUpdate,
                  rafQueue, nextRafId, now, pool, applied, pubLog,
                  currentSessionId, sessionId >>
  /\ UNCHANGED << decoderVars, rendererVars >>

\* createNewChat
CreateNewChat ==
  /\ IsSome(currentSessionId)
  /\ currentSessionId' = None
  /\ messages' = <<>>
  /\ UNCHANGED << pc, isLoading, accumulatedMessage, parts, toolObjs,
                  currentToolCalls, uuidCount, lastUpdateTime, rafId, pendingUpdate,
                  rafQueue, nextRafId, now, pool, applied, pubLog,
                  isFetchingHistory, loading, sessionId >>
  /\ UNCHANGED << decoderVars, rendererVars >>

\* prev.filter(m => m.id !== msgUniqueId)
WithoutId(prev, msgUniqueId) ==
  LET Keep(m) == m.id # msgUniqueId IN SelectSeq(prev, Keep)

\* handleDeleteMessage, the server having deleted the turn; the button is
\* shown on a message that has a message_id
DeleteMessage(msgUniqueId) ==
  /\ IsSome(currentSessionId)
  /\ \E i \in 1..Len(messages) :
       messages[i].id = msgUniqueId /\ messages[i].message_id # ""
  /\ messages' = WithoutId(messages, msgUniqueId)
  /\ UNCHANGED << pc, isLoading, accumulatedMessage, parts, toolObjs,
                  currentToolCalls, uuidCount, lastUpdateTime, rafId, pendingUpdate,
                  rafQueue, nextRafId, now, pool, applied, pubLog >>
  /\ UNCHANGED << decoderVars, pageVars, rendererVars >>

MessageIds == {"h0", "h1", "srv", PlaceholderId}

NextApp ==
  \/ \E interrupt \in BOOLEAN : Send(interrupt)
  \/ \E f \in pool : ApplyDelta(f)
  \/ Tick
  \/ \E h \in rafQueue : RafFire(h)
  \/ StreamEnd
  \/ StreamError
  \/ LoadMore
  \/ \E page \in OlderPages \cup {LatestPage} : LoadDone(page)
  \/ LoadFailed
  \/ CreateNewChat
  \/ \E id \in MessageIds : DeleteMessage(id)

SpecApp == InitApp /\ [][NextApp]_vars

ToolCallsOf(f) ==
  LET chunk == FramePool[f]
  IN IF IsSome(chunk.delta) /\ IsSome(Val(chunk.delta).tool_calls)
       THEN Val(Val(chunk.delta).tool_calls) ELSE <<>>

\* C24: a tool-call fragment that carries an id installs a fresh accumulator
\* for its index, holding the fragment's id and only the fragment's name and
\* arguments, also when an accumulator exists for the index and also when the
\* id is the one that accumulator has; the accumulator that was there before
\* is no longer in the flattened tool_calls list of the message.
C24_ExplicitIdInstallsFresh ==
  [][\A f \in FrameIds :
       Consumed(f) =>
         \A k \in 1..Len(ToolCallsOf(f)) :
           LET tcs == ToolCallsOf(f)
               tc == tcs[k]
               old == currentToolCalls[tc.index]
               new == currentToolCalls'[tc.index]
           IN (tc.id # "" /\ \A j \in (k + 1)..Len(tcs) : tcs[j].index # tc.index)
                => /\ new > Len(toolObjs)
                   /\ toolObjs'[new].id = tc.id
                   /\ toolObjs'[new].name = tc.name
                   /\ toolObjs'[new].arguments = tc.arguments
                   /\ IsSome(accumulatedMessage'.tool_calls)
                   /\ SeqIncludes(Val(accumulatedMessage'.tool_calls), new)
                   /\ old # 0 => ~SeqIncludes(Val(accumulatedMessage'.tool_calls), old)
    ]_vars

\* The id x came twice for index 0, the second time after "t" and "{}" had
\* been appended: the accumulator holds the second fragment only and the
\* first accumulator, get({}), is not in the flattened list.
C24_Witness ==
  /\ applied = << 4, 5, 4 >>
  /\ toolObjs[1].id = "x" /\ toolObjs[1].name = "get" /\ toolObjs[1].arguments = "{}"
  /\ currentToolCalls[0] = 2
  /\ toolObjs[2].id = "x" /\ toolObjs[2].name = "ge"
  /\ accumulatedMessage.tool_calls = Some(<< 2 >>)

\* ------------------------------------------------------------------ C25
\* C25: while the stream is consumed at most one paint callback is
\* outstanding and pendingUpdate is true exactly when one is; a delta applied
\* while a publish is pending schedules nothing; a callback that re-arms
\* leaves exactly one callback outstanding, a new one. At no time, after the
\* end included, is more than one callback outstanding.
C25_OneCallback ==
  [][/\ Cardinality(rafQueue') <= 1
     /\ pc' = "streaming" => (pendingUpdate' <=> rafQueue' # {})
     /\ (pc = "streaming" /\ pendingUpdate /\ applied' # applied)
          => (rafQueue' = rafQueue /\ nextRafId' = nextRafId /\ pendingUpdate')
     /\ (now' # now /\ rafQueue' # rafQueue /\ pubLog' = pubLog)
          => (Cardinality(rafQueue') = 1 /\ rafQueue' \cap rafQueue = {})
    ]_vars

\* A callback came too early and re-armed, and a delta was applied while the
\* re-armed callback was pending.
C25_Witness ==
  /\ pc = "streaming"
  /\ nextRafId = 3
  /\ rafQueue = {2}
  /\ pendingUpdate
  /\ Len(applied) = 2
  /\ pubLog = <<>>

\* ------------------------------------------------------------------ C26
\* The k-th frame consumed carried a delta.
AppliedDelta(k) == Len(applied) >= k /\ IsSome(FramePool[applied[k]].delta)

\* A snapshot taken after the k-th frame was consumed has been placed in the
\* history by a callback or by the final update.
Published(k) ==
  \E e \in 1..Len(pubLog) : pubLog[e].by # "error" /\ pubLog[e].upto >= k

\* The model does not follow the clock past MaxTime.
ClockAtHorizon == now + FrameMs > MaxTime

\* C26: when the host keeps running the callbacks it has queued, every delta
\* applied is eventually contained in a snapshot placed in the history, and
\* an outstanding callback does not re-arm for ever: the queue becomes empty.
\* Both as far as the model follows the clock.
C26_EventuallyPublished ==
  /\ \A k \in 1..MaxDeltas : AppliedDelta(k) ~> (Published(k) \/ ClockAtHorizon)
  /\ (rafQueue # {}) ~> (rafQueue = {} \/ ClockAtHorizon)

\* A callback that came too early re-armed, and the re-armed callback has
\* published the delta while the stream is still open.
C26_Witness ==
  /\ pc = "streaming"
  /\ nextRafId = 3
  /\ rafQueue = {}
  /\ AppliedDelta(1)
  /\ Published(1)
  /\ Last(messages).content = accumulatedMessage.content
  /\ ~ClockAtHorizon

\* ------------------------------------------------------------------ C27
\* C27: every part of the message is non-empty: a text or reasoning part has
\* content, a tool_calls or tool_result part has at least one entry.
C27_PartsNonEmpty ==
  \A k \in 1..Len(parts) :
    /\ parts[k].type \in {"text", "reasoning"} => parts[k].content # ""
    /\ parts[k].type = "tool_calls" => parts[k].tool_calls # <<>>
    /\ parts[k].type = "tool_result" => parts[k].tool_result # <<>>

\* ------------------------------------------------------------------ C28
\* The content strings the frames of the pool carry.
ContentFragments ==
  { Val(FramePool[f].delta).content : f \in { g \in FrameIds : IsSome(FramePool[g].delta) } }

\* The concatenations of at most n of them.
RECURSIVE Concats(_)
Concats(n) ==
  IF n = 0 THEN {""}
  ELSE LET c == Concats(n - 1) IN c \cup { x \o y : x \in c, y \in ContentFragments }

\* new is old followed by streamed text, by the error notice, or by both
Extends(old, new) ==
  \E x \in Concats(MaxDeltas) : \E e \in {"", ErrorNotice} : new = old \o x \o e

\* C28: each version of the stream's message placed in the history extends the
\* version before it: the content of the old version is a prefix of the
\* content of the new one and the parts list is not shorter.
C28_MonotoneSnapshots ==
  [][(pc # "idle" /\ Len(messages) > 0 /\ Len(messages') > 0)
       => /\ Extends(Last(messages).content, Last(messages').content)
          /\ Len(parts') >= Len(parts)
    ]_vars

\* The same, for the steps of a stream that has not failed.
C28_MonotoneUnlessFailed ==
  [][(pc \in {"streaming", "done"} /\ pc' # "failed"
      /\ Len(messages) > 0 /\ Len(messages') > 0)
       => /\ Extends(Last(messages).content, Last(messages').content)
          /\ Len(parts') >= Len(parts)
    ]_vars

\* ------------------------------------------------------------------ C29
\* m is a message the server stored in an earlier turn of the session.
IsStored(m) ==
  \E page \in OlderPages \cup {LatestPage} : \E k \in 1..Len(page) : page[k] = m

\* C29: a publish (scheduler, final, or error annotation) changes no message
\* of an earlier turn, leaves the history unchanged when it is empty or when
\* its last message is not an assistant message, and keeps the number of
\* messages.
C29_PublishReplacesOwnPlaceholder ==
  [][pubLog' # pubLog
       => /\ Len(messages') = Len(messages)
          /\ (Len(messages) = 0 \/ Last(messages).role # "assistant")
               => messages' = messages
          /\ \A i \in 1..Len(messages) :
               messages'[i] # messages[i] => ~IsStored(messages[i])
    ]_vars

\* ------------------------------------------------------------------ C30
\* The turn a message of the history was created in: a stored turn, or the
\* turn of the stream (its question, and the message that refers to the
\* stream's parts).
TurnOf(m) ==
  IF m.partsRef = 1 \/ (m.role = "user" /\ m.content = userMsg.content) THEN "stream"
  ELSE IF m.message_id \in {"p0", "p1"} THEN "h0"
  ELSE "h1"

\* C30: a publish that changes the id of the stream's message gives the new
\* id, in the same update, to every message that had the old id, and to no
\* message of another turn; after every publish the messages of a turn have
\* one id.
C30_TurnRelabelled ==
  [][pubLog' # pubLog
       => /\ Len(messages') = Len(messages)
          /\ \A i \in 1..(Len(messages) - 1) :
               /\ messages'[i] =
                    IF messages[i].id = Last(messages).id
                      THEN [messages[i] EXCEPT !.id = Last(messages').id]
                      ELSE messages[i]
               /\ messages'[i].id # messages[i].id => TurnOf(messages[i]) = "stream"
          /\ \A i, j \in 1..Len(messages') :
               TurnOf(messages'[i]) = TurnOf(messages'[j])
                 => messages'[i].id = messages'[j].id
    ]_vars

====
